---------------------------- MODULE Spec2Model ----------------------------
(***************************************************************************)
(* A model of the SentimentDNA front end's data core:                      *)
(*   - the mock sentiment generator and its streams (data/mockStream.ts),  *)
(*   - the phase-portrait trail (lenses/PhasePortrait.tsx),                *)
(*   - the backend response adapter (adaptBackendResponse).                *)
(*                                                                         *)
(* Numbers.  Real-valued quantities are fixed-point integers.  Scores,     *)
(* momentum, confidence and noise samples are in hundredths (1.0 = One);   *)
(* the score update and the attribution weights are computed in            *)
(* ten-thousandths (1.0 = Fine) and the score is rounded once, at the end  *)
(* of the update.  Math.random() and the simplex noise functions are       *)
(* inputs: each call site draws its value from a small set.                 *)
(***************************************************************************)
EXTENDS Integers, Sequences, FiniteSets, TLC

One == 10 * 10
Fine == One * One

\* JavaScript's Infinity, NaN and undefined, kept apart from every finite
\* number of the model.
Infinity == 10^9

NaN == 0 - 2 * Infinity

Undefined == NaN - 1

IsNaN(x) == x = NaN

\* ------------------------------------------------------------------------
\* Bounds of the model
\* ------------------------------------------------------------------------
MaxSimTime == 104

MaxPoints == 1

MaxStreamTime == 2

MaxTimers == 2

MaxRunTicks == 3

MaxNow == 506

TravelStep == 50

\* ------------------------------------------------------------------------
\* Numeric helpers (JavaScript Math.*)
\* ------------------------------------------------------------------------
Max(a, b) == IF a >= b THEN a ELSE b

Min(a, b) == IF a <= b THEN a ELSE b

\* Rounds x / d to the nearest integer (d > 0).
RoundDiv(x, d) == (2 * x + d) \div (2 * d)

VARIABLES
  \* module-level state of mockStream.ts
  simulationTime,   \* in ticks of 0.01
  previousScore,    \* hundredths
  regimeStability,  \* dwell counter
  currentRegime,
  \* the readings returned by the last call of generateReading/generateHistory
  produced,
  \* the objects returned by createSentimentStream, by stream id: the closure
  \* variables callback, intervalId and latestReading of each
  streams,
  \* the intervals setInterval started and clearInterval has not cleared
  timers,
  nextTimerId,
  \* per stream: the last reading handed to its callback, and a bit that
  \* flips at every invocation of the callback
  delivered,
  \* for stream Observed: the generator state and reading a stream that
  \* shared no state with anything else would have after the same calls
  \* and samples
  isolated,
  \* two separate executions of the generator program
  runs,
  \* the dashboard and its phase portrait
  now,        \* Date.now(), in tick intervals
  reading,    \* Dashboard state: the current reading
  history,    \* Dashboard state: the retained readings
  timeRange,  \* PhasePortrait prop: the time-travel window, if any
  trailRef,   \* PhasePortrait: trailRef.current
  appended,   \* the points put on the trail since it was last rebuilt,
              \* none evicted
  \* the ingress adapter
  backend,    \* the payload handed to adaptBackendResponse
  adapted,    \* what the call returned
  \* the regime state machine of mockStream.ts with its transition table as
  \* configuration: the table, whether the module has been loaded, whether
  \* loading or a transition raised an error, the regime and the last
  \* Math.random() drawn
  machine,
  \* the correlation of the active symbol with one other symbol: the two
  \* score histories (y absent when hasY is FALSE), the symbol, the
  \* Math.random() the mock branch draws, and the entry returned
  corr,
  \* the spin network component: the spin of each node, the phaseTransition
  \* flag, the sign the pending cascade timeout will force (0: none
  \* pending), whether the timeout that clears the flag is pending, the
  \* reading it is rendered with, and whether its effect is due to run again
  spin,
  \* a consumer of readings, the Dashboard component or the useSentimentFeed
  \* hook: its data source, the time in readings delivered, the retained
  \* history (timestamps), the retained events and the number of readings
  \* put on the history since it was last replaced
  feed,
  \* the streamline flow component: the reading's score it is rendered with
  \* and its particles
  flow,
  \* a WebSocket client: its socket, its reconnect timer, its counters, its
  \* subscribed symbols and what it has sent and reported
  ws,
  \* the connection effect of the useSentimentFeed hook: the symbol, the
  \* failures counted, the fallback flag and the source readings come from
  hook,
  \* the cohort tabs: the active-cohort selection
  cohorts

genVars == <<simulationTime, previousScore, regimeStability, currentRegime>>

streamVars == <<streams, timers, nextTimerId, delivered, isolated>>

trailVars == <<now, reading, history, timeRange, trailRef, appended>>

vars == <<simulationTime, previousScore, regimeStability, currentRegime, produced,
          streams, timers, nextTimerId, delivered, isolated, runs,
          now, reading, history, timeRange, trailRef, appended,
          backend, adapted, machine, corr, spin, feed, flow, ws, hook, cohorts>>

adapterVars == <<backend, adapted>>

\* The variables of the generator, the streams, the trail and the adapter.
coreVars == <<simulationTime, previousScore, regimeStability, currentRegime,
              produced, streams, timers, nextTimerId, delivered, isolated, runs,
              now, reading, history, timeRange, trailRef, appended,
              backend, adapted>>

\* The variables of the other components.
extVars == <<machine, corr, spin, feed, flow, ws, hook, cohorts>>

\* The variables of the flow, the WebSocket client, the hook's connection
\* and the cohort tabs.
uiVars == <<flow, ws, hook, cohorts>>

Regimes == <<"calm", "trending", "volatile", "liquidation">>

RegimeSet == {Regimes[i] : i \in 1..Len(Regimes)}

\* Regime transition probabilities, in thousandths, in Object.entries order.
regimeTransitions ==
  [calm        |-> <<920, 50, 25, 5>>,
   trending    |-> <<100, 800, 80, 20>>,
   volatile    |-> <<50, 150, 700, 100>>,
   liquidation |-> <<20, 80, 300, 600>>]

RECURSIVE WalkRow(_, _, _, _, _)
WalkRow(probs, i, cumulative, rand, current) ==
  IF i > Len(probs) THEN current
  ELSE IF rand < cumulative + probs[i] THEN Regimes[i]
  ELSE WalkRow(probs, i + 1, cumulative + probs[i], rand, current)

\* rand is Math.random() in thousandths, 0..999.
transitionRegime(current, rand) ==
  WalkRow(regimeTransitions[current], 1, 0, rand, current)

\* Volatility by regime, in tenths.
volatilityMultiplier ==
  [calm |-> 3, trending |-> 5, volatile |-> 12, liquidation |-> 20]

\* Math.sin(x) for x in thousandths, as x - x^3/6, in thousandths; the model
\* keeps simulationTime * 0.2 below 1 radian.
Sin(x) == x - (x * x * x) \div (6 * 1000 * 1000)

\* Math.max(-1, Math.min(1, score)) on a value in ten-thousandths.
ClampScoreUnclamped(raw) == raw

ClampScore(raw) == Max(-Fine, Min(Fine, raw))

\* Math.max(0.1, Math.min(1, c)) in hundredths.
ClampConfidence(c) == Max(One \div 10, Min(One, c))

\* The attribution of a reading from the three raw weights (hundredths):
\* each weight divided by the total, in ten-thousandths.  0/0 is NaN.
NormalizeAttribution(rawSocial, rawOnchain, rawMicro) ==
  LET total == rawSocial + rawOnchain + rawMicro
      Div(w) == IF total = 0 THEN NaN ELSE RoundDiv(w * Fine, total)
  IN  [social |-> Div(rawSocial), onchain |-> Div(rawOnchain),
       microstructure |-> Div(rawMicro)]

\* if (regimeStability <= 0), after the decrement.
DwellExpiredAlways(dwell) == TRUE

DwellExpired(dwell) == dwell <= 0

\* One call of generateReading() on the module state g with the samples in:
\* the new module state and the reading returned.
generateReading(g, in) ==
  LET time      == g.simulationTime + 1
      dwell     == g.regimeStability - 1
      expired   == DwellExpired(dwell)
      regime    == IF expired THEN transitionRegime(g.currentRegime, in.rand)
                   ELSE g.currentRegime
      stability == IF expired THEN 50 + (in.randDwell * 100) \div 1000
                   ELSE dwell
      vol       == volatilityMultiplier[regime]
      \* noiseVal * 0.1, ten-thousandths
      noiseTerm == in.scoreNoise * vol
      meanReversion == -(2 * g.previousScore)
      \* trendComponent * 0.01, ten-thousandths
      trendTerm == IF regime = "trending"
                   THEN RoundDiv(Sin(2 * time) * 3, 100) ELSE 0
      raw       == g.previousScore * One + noiseTerm + meanReversion + trendTerm
      score     == RoundDiv(ClampScore(raw), One)
      momentum  == (score - g.previousScore) * 10
      rawSocial  == (in.socialNoise + One) \div 2
      rawOnchain == (in.onchainNoise + One) \div 2
      rawMicro   == (in.microNoise + One) \div 2
      baseConfidence  == 70 - vol * 3
      confidenceNoise == in.momentumNoise \div 5
  IN  [g |-> [simulationTime |-> time, previousScore |-> score,
              regimeStability |-> stability, currentRegime |-> regime],
       reading |-> [score |-> score, momentum |-> momentum,
                    confidence |-> ClampConfidence(baseConfidence + confidenceNoise),
                    regime |-> regime,
                    attribution |-> NormalizeAttribution(rawSocial, rawOnchain, rawMicro)]]

\* The module state as a record, and the state after module load.
GenState == [simulationTime |-> simulationTime, previousScore |-> previousScore,
             regimeStability |-> regimeStability, currentRegime |-> currentRegime]

ResetState == [simulationTime |-> 0, previousScore |-> 0,
               regimeStability |-> 100, currentRegime |-> "calm"]

SetGen(g) ==
  /\ simulationTime' = g.simulationTime
  /\ previousScore' = g.previousScore
  /\ regimeStability' = g.regimeStability
  /\ currentRegime' = g.currentRegime

\* The samples one call of generateReading draws: the five noise functions
\* (hundredths, -One..One) and the two Math.random() calls that decide the
\* regime (thousandths, 0..999).
NoiseSamples ==
  { [scoreNoise |-> One, momentumNoise |-> One, socialNoise |-> One,
     onchainNoise |-> One, microNoise |-> One],
    [scoreNoise |-> -One, momentumNoise |-> -One, socialNoise |-> -One,
     onchainNoise |-> -One, microNoise |-> -One],
    [scoreNoise |-> 0, momentumNoise |-> 0, socialNoise |-> One,
     onchainNoise |-> 0, microNoise |-> 0] }

RandomDraws == {0, 930, 980, 999}

DwellDraws == {0, 999}

WithRandom(n, r, d) ==
  [scoreNoise |-> n.scoreNoise, momentumNoise |-> n.momentumNoise,
   socialNoise |-> n.socialNoise, onchainNoise |-> n.onchainNoise,
   microNoise |-> n.microNoise, rand |-> r, randDwell |-> d]

\* The draws that matter in state g: Math.random() is read for the regime
\* only when the dwell counter runs out.
SamplesOf(noise, g) ==
  IF g.regimeStability - 1 <= 0
  THEN {WithRandom(n, r, d) : n \in noise, r \in RandomDraws, d \in DwellDraws}
  ELSE {WithRandom(n, 0, 0) : n \in noise}

Samples(g) == SamplesOf(NoiseSamples, g)

\* The streams are explored with two of the noise samples.
StreamNoise == {n \in NoiseSamples : n.socialNoise = One}

StreamSamples(g) == SamplesOf(StreamNoise, g)

\* ------------------------------------------------------------------------
\* The generator alone: ticks and history regeneration
\* ------------------------------------------------------------------------
\* generateHistory(points): the module state is reset, then generateReading
\* runs points times.  The set of (state, history) pairs the calls can yield.
RECURSIVE HistoryOutcomesOf(_, _, _)
HistoryOutcomesOf(noise, g, k) ==
  IF k = 0 THEN {[g |-> g, history |-> <<>>]}
  ELSE UNION { { [g |-> rest.g, history |-> <<first.reading>> \o rest.history] :
                   rest \in HistoryOutcomesOf(noise, first.g, k - 1) } :
               first \in {generateReading(g, in) : in \in SamplesOf(noise, g)} }

generateHistory(points) == HistoryOutcomesOf(NoiseSamples, ResetState, points)

GenInit ==
  /\ simulationTime = 0
  /\ previousScore = 0
  /\ regimeStability = 100
  /\ currentRegime = "calm"
  /\ produced = <<>>

GenTick ==
  /\ simulationTime < MaxSimTime
  /\ \E in \in Samples(GenState) :
       LET out == generateReading(GenState, in)
       IN  /\ SetGen(out.g)
           /\ produced' = <<out.reading>>
  /\ UNCHANGED <<streamVars, runs, trailVars, adapterVars, extVars>>

GenHistory ==
  /\ \E points \in 0..MaxPoints :
       \E out \in generateHistory(points) :
         /\ SetGen(out.g)
         /\ produced' = out.history
  /\ UNCHANGED <<streamVars, runs, trailVars, adapterVars, extVars>>

\* ------------------------------------------------------------------------
\* createSentimentStream: streams over the shared module state
\* ------------------------------------------------------------------------
StreamIds == {1, 2}

Observed == 1

\* No reading (a closure variable not yet assigned).
NoReading == [score |-> 0, momentum |-> 0, confidence |-> 0, regime |-> "none",
              attribution |-> [social |-> 0, onchain |-> 0, microstructure |-> 0]]

NoStream == [created |-> FALSE, callback |-> "null", intervalId |-> 0,
             latestReading |-> NoReading, firstReading |-> NoReading]

StreamInit ==
  /\ streams = [s \in StreamIds |-> NoStream]
  /\ timers = {}
  /\ nextTimerId = 1
  /\ delivered = [s \in StreamIds |-> [n |-> 0, reading |-> NoReading]]
  /\ isolated = [g |-> ResetState, reading |-> NoReading]

\* latestReading = generateReading() in the interval callback.
TickLatestStale(old, new) == old

TickLatest(old, new) == new

\* createSentimentStream(): latestReading is initialised by a call of
\* generateReading() on the module state.
CreateStream(s) ==
  /\ ~streams[s].created
  /\ simulationTime < MaxStreamTime
  /\ \E in \in StreamSamples(GenState) :
       LET out == generateReading(GenState, in)
       IN  /\ SetGen(out.g)
           /\ streams' = [streams EXCEPT ![s] =
                 [created |-> TRUE, callback |-> "null", intervalId |-> 0,
                  latestReading |-> out.reading, firstReading |-> out.reading]]
           /\ isolated' = IF s = Observed THEN generateReading(ResetState, in)
                           ELSE isolated
  /\ UNCHANGED <<timers, nextTimerId, delivered, produced, runs, trailVars, adapterVars, extVars>>

\* subscribe(cb): the callback is stored and a new interval is started; the
\* id of any interval started earlier is overwritten.
Subscribe(s) ==
  /\ streams[s].created
  /\ nextTimerId <= MaxTimers
  /\ streams' = [streams EXCEPT ![s].callback = "cb", ![s].intervalId = nextTimerId]
  /\ timers' = timers \cup {[id |-> nextTimerId, stream |-> s]}
  /\ nextTimerId' = nextTimerId + 1
  /\ UNCHANGED <<genVars, produced, delivered, isolated, runs, trailVars, adapterVars, extVars>>

\* unsubscribe(): clears the interval whose id is stored, if any.
Unsubscribe(s) ==
  /\ streams[s].created
  /\ timers' = IF streams[s].intervalId # 0
               THEN {t \in timers : t.id # streams[s].intervalId}
               ELSE timers
  /\ streams' = [streams EXCEPT ![s].callback = "null", ![s].intervalId = 0]
  /\ UNCHANGED <<genVars, produced, nextTimerId, delivered, isolated, runs, trailVars, adapterVars, extVars>>

\* An interval of stream t.stream fires.
TimerFire(t) ==
  /\ t \in timers
  /\ simulationTime < MaxStreamTime
  /\ t.stream = Observed => isolated.g.simulationTime < MaxStreamTime
  /\ \E in \in StreamSamples(GenState) :
       LET s   == t.stream
           out == generateReading(GenState, in)
           latest == TickLatest(streams[s].latestReading, out.reading)
       IN  /\ SetGen(out.g)
           /\ streams' = [streams EXCEPT ![s].latestReading = latest,
                                          ![s].firstReading = NoReading]
           /\ delivered' = IF streams[s].callback # "null"
                            THEN [delivered EXCEPT ![s] =
                                    [n |-> 1 - delivered[s].n, reading |-> out.reading]]
                            ELSE delivered
           /\ isolated' = IF s = Observed THEN generateReading(isolated.g, in)
                           ELSE isolated
  /\ UNCHANGED <<timers, nextTimerId, produced, runs, trailVars, adapterVars, extVars>>

\* getLatest() of stream s.
getLatest(s) == streams[s].latestReading

\* Some other part of the program calls generateHistory (the dashboard does
\* on mount).
StreamHistory ==
  /\ \E out \in HistoryOutcomesOf(StreamNoise, ResetState, MaxPoints) : SetGen(out.g)
  /\ UNCHANGED <<streamVars, produced, runs, trailVars, adapterVars, extVars>>

\* ------------------------------------------------------------------------
\* Two executions of the generator program
\* ------------------------------------------------------------------------
RunIds == {"A", "B"}

RunsInit == runs = [r \in RunIds |-> [g |-> ResetState, readings |-> <<>>]]

\* One call of generateReading() in execution r; each execution draws from
\* its own Math.random().
RunTick(r) ==
  /\ Len(runs[r].readings) < MaxRunTicks
  /\ \E in \in Samples(runs[r].g) :
       LET out == generateReading(runs[r].g, in)
       IN  runs' = [runs EXCEPT ![r] =
                      [g |-> out.g, readings |-> Append(runs[r].readings, out.reading)]]
  /\ UNCHANGED <<genVars, produced, streamVars, trailVars, adapterVars, extVars>>

\* ------------------------------------------------------------------------
\* The dashboard's history and the phase portrait's trail
\* ------------------------------------------------------------------------
HistoryPoints == 200

HistoryKeep == 499

TrailCapacity == 300

\* array.slice(-n): the last n elements (all of them when there are fewer).
SliceLast(seq, n) ==
  IF Len(seq) <= n THEN seq ELSE SubSeq(seq, Len(seq) - n + 1, Len(seq))

\* A reading of the heartbeat generator: only the timestamp varies.
Heartbeat(ts) ==
  [timestamp |-> ts, score |-> 45, momentum |-> 0, regime |-> "calm"]

\* The trail point of a reading, alpha in ten-thousandths.
TrailPoint(r, alpha) ==
  [x |-> r.score, y |-> r.momentum, timestamp |-> r.timestamp,
   regime |-> r.regime, alpha |-> alpha]

NoRange == [active |-> FALSE, start |-> 0, end |-> 0]

\* history.filter(r => r.timestamp >= start && r.timestamp <= end)
filteredHistory(hist, range) ==
  IF range.active
  THEN SelectSeq(hist, LAMBDA r : r.timestamp >= range.start /\ r.timestamp <= range.end)
  ELSE hist

\* trailRef.current.slice(-300) when the trail is over capacity.
EvictNewest(trail) == SubSeq(trail, 1, Min(Len(trail), TrailCapacity))

Evict(trail) == SliceLast(trail, TrailCapacity)

\* trailRef.current.map((p, i) => ({...p, alpha: (i + 1) / length}))
KeepAlpha(trail) == trail

Fade(trail) ==
  [i \in 1..Len(trail) |->
     [trail[i] EXCEPT !.alpha = RoundDiv(i * Fine, Len(trail))]]

\* The effect of PhasePortrait on [reading, timeRange, filteredHistory]:
\* live, the reading is pushed; in time travel the trail is rebuilt.
TrailEffect(trail, r, range, hist) ==
  IF ~range.active
  THEN Fade(Evict(Append(trail, TrailPoint(r, Fine))))
  ELSE LET f == filteredHistory(hist, range)
       IN  [i \in 1..Len(f) |-> TrailPoint(f[i], RoundDiv(i * Fine, Len(f)))]

\* The trail without its alphas.
Points(trail) == [i \in 1..Len(trail) |-> [trail[i] EXCEPT !.alpha = 0]]

AppendedEffect(app, r, range, hist) ==
  IF ~range.active
  THEN Append(app, TrailPoint(r, 0))
  ELSE Points(TrailEffect(<<>>, r, range, hist))

\* The windows a parent may pass: everything, and the recent past.
TimeRanges ==
  { [active |-> TRUE, start |-> 0, end |-> 2 * MaxNow],
    [active |-> TRUE, start |-> HistoryPoints + 1, end |-> 2 * MaxNow] }

\* Before the dashboard mounts: no history, no trail.
TrailIdle ==
  /\ now = 0
  /\ history = <<>>
  /\ reading = Heartbeat(0)
  /\ timeRange = NoRange
  /\ trailRef = <<>>
  /\ appended = <<>>

\* After the dashboard has mounted: generateHistory(200) is the history, its
\* last reading is the current one and the portrait's first effect has
\* pushed it.
TrailInit ==
  /\ now = HistoryPoints + 1
  /\ history = [i \in 1..HistoryPoints |-> Heartbeat(i)]
  /\ reading = Heartbeat(HistoryPoints)
  /\ timeRange = NoRange
  /\ trailRef = TrailEffect(<<>>, Heartbeat(HistoryPoints), NoRange, <<>>)
  /\ appended = <<TrailPoint(Heartbeat(HistoryPoints), 0)>>

\* The stream delivers a reading: the dashboard stores it and appends it to
\* its history, and the portrait's effect runs on the new props.
Arrive ==
  /\ now < MaxNow
  /\ LET r == Heartbeat(now + 1)
         h == Append(SliceLast(history, HistoryKeep), r)
     IN  /\ now' = now + 1
         /\ reading' = r
         /\ history' = h
         /\ trailRef' = TrailEffect(trailRef, r, timeRange, h)
         /\ appended' = AppendedEffect(appended, r, timeRange, h)
  /\ UNCHANGED <<timeRange, genVars, produced, streamVars, runs, adapterVars, extVars>>

\* The parent passes another time range (or none): the effect runs.  The
\* model lets the window change every TravelStep ticks only.
SetTimeRange(range) ==
  /\ range # timeRange
  /\ now % TravelStep = 0
  /\ timeRange' = range
  /\ trailRef' = TrailEffect(trailRef, reading, range, history)
  /\ appended' = AppendedEffect(appended, reading, range, history)
  /\ UNCHANGED <<now, reading, history, genVars, produced, streamVars, runs, adapterVars, extVars>>

\* ------------------------------------------------------------------------
\* adaptBackendResponse
\* ------------------------------------------------------------------------
\* ToNumber on a number or undefined.
ToNumber(x) == IF x = Undefined THEN NaN ELSE x

\* Math.min and Math.max of two arguments: NaN if either is.
MathMin(a, b) ==
  IF IsNaN(ToNumber(a)) \/ IsNaN(ToNumber(b)) THEN NaN ELSE Min(a, b)

MathMax(a, b) ==
  IF IsNaN(ToNumber(a)) \/ IsNaN(ToNumber(b)) THEN NaN ELSE Max(a, b)

\* String.prototype.toLowerCase on the labels the model sends.
toLowerCase(str) ==
  CASE str = "Calm" -> "calm"
    [] str = "TRENDING" -> "trending"
    [] str = "Volatile" -> "volatile"
    [] str = "LIQUIDATION" -> "liquidation"
    [] str = "Bearish" -> "bearish"
    [] OTHER -> str

\* The keys of regimeMap that are not its own: an object literal inherits
\* Object.prototype's, and a lookup of one yields a function or an object.
InheritedKeys == {"constructor", "__proto__"}

\* regimeMap[label] || 'calm': the own keys map to themselves, an inherited
\* key yields a truthy value that is no regime, anything else is undefined.
regimeMap(label) ==
  IF label \in RegimeSet THEN label
  ELSE IF label \in InheritedKeys THEN "[object]"
  ELSE "calm"

\* Math.max(-1, Math.min(1, backend.score)), hundredths.
AdaptScoreUnclamped(score) == ToNumber(score)

AdaptScore(score) == MathMax(-One, MathMin(One, score))

\* Math.max(0, Math.min(1, backend.confidence)), hundredths.
AdaptConfidence(confidence) == MathMax(0, MathMin(One, confidence))

\* The attribution of the adapted reading: each weight over the total, or
\* over 1 when the total is 0; ten-thousandths.
AdaptAttribution(a) ==
  LET sum   == a.social + a.onchain + a.microstructure
      total == IF sum = 0 THEN One ELSE sum
  IN  [social |-> RoundDiv(a.social * Fine, total),
       onchain |-> RoundDiv(a.onchain * Fine, total),
       microstructure |-> RoundDiv(a.microstructure * Fine, total)]

NoAttribution == [social |-> Undefined, onchain |-> Undefined,
                  microstructure |-> Undefined]

\* What a call returns: the adapted reading, or a thrown TypeError.
Threw == [threw |-> TRUE, score |-> Undefined, momentum |-> Undefined,
          confidence |-> Undefined, regime |-> "undefined",
          attribution |-> NoAttribution]

NotAdapted == [Threw EXCEPT !.threw = FALSE]

adaptBackendResponse(b) ==
  IF b.regime = "undefined" \/ b.attribution = NoAttribution
  THEN Threw   \* undefined.toLowerCase(), or destructuring undefined
  ELSE [threw |-> FALSE,
        score |-> AdaptScore(b.score),
        momentum |-> IF b.momentum_short # Undefined THEN b.momentum_short
                     ELSE IF b.momentum_long # Undefined THEN b.momentum_long
                     ELSE 0,
        confidence |-> AdaptConfidence(b.confidence),
        regime |-> regimeMap(toLowerCase(b.regime)),
        attribution |-> AdaptAttribution(b.attribution)]

\* The payloads the model sends: numbers inside, on and outside the
\* documented domains, infinite, and missing (undefined).
PayloadNumbers ==
  {Undefined, -Infinity, -(3 * One), -One - 1, -One, -1, 0, 50, One, One + 1,
   3 * One, Infinity}

PayloadRegimes ==
  {"calm", "Volatile", "LIQUIDATION", "Bearish", "constructor", "undefined"}

PayloadAttributions ==
  { [social |-> 2 * One, onchain |-> One, microstructure |-> One],
    [social |-> 30, onchain |-> 50, microstructure |-> 20],
    [social |-> 0, onchain |-> 0, microstructure |-> 0],
    NoAttribution }

Payloads ==
  [score : PayloadNumbers, confidence : PayloadNumbers,
   regime : PayloadRegimes, attribution : PayloadAttributions,
   momentum_short : {Undefined, 12}, momentum_long : {Undefined, -7}]

AdapterIdle ==
  /\ backend = [score |-> 0, confidence |-> 0, regime |-> "calm",
                attribution |-> NoAttribution,
                momentum_short |-> Undefined, momentum_long |-> Undefined]
  /\ adapted = NotAdapted

AdapterInit ==
  /\ backend \in Payloads
  /\ adapted = NotAdapted

\* A message arrives and is adapted.
Adapt ==
  /\ adapted = NotAdapted
  /\ adapted' = adaptBackendResponse(backend)
  /\ UNCHANGED <<backend, genVars, produced, streamVars, runs, trailVars, extVars>>

\* ------------------------------------------------------------------------
\* The regime state machine and its transition table
\* ------------------------------------------------------------------------
\* transitionRegime over a given table.
transitionRegimeOver(table, current, rand) ==
  WalkRow(table[current], 1, 0, rand, current)

RECURSIVE SumSeq(_, _)
SumSeq(seq, i) == IF i > Len(seq) THEN 0 ELSE seq[i] + SumSeq(seq, i + 1)

\* Every row of the table sums to 1 (thousandths).
RowStochastic(table) == \A r \in RegimeSet : SumSeq(table[r], 1) = 1000

\* The tables the model is configured with: the one in the source, one whose
\* calm row sums to 0.9 and one whose calm row sums to 1.05.
Tables ==
  { regimeTransitions,
    [regimeTransitions EXCEPT !.calm = <<820, 50, 25, 5>>],
    [regimeTransitions EXCEPT !.calm = <<920, 100, 25, 5>>] }

MachineRandoms ==
  {0, 99, 100, 500, 819, 820, 899, 900, 919, 920, 969, 970, 979, 980, 994, 995, 999}

MachineIdle ==
  machine = [table |-> regimeTransitions, loaded |-> FALSE, error |-> FALSE,
             regime |-> "calm", rand |-> 0]

MachineInit ==
  \E table \in Tables :
    machine = [table |-> table, loaded |-> FALSE, error |-> FALSE,
               regime |-> "calm", rand |-> 0]

\* The module is loaded: the table and the module state are initialised;
\* nothing inspects the table.
LoadModule ==
  /\ ~machine.loaded
  /\ machine' = [machine EXCEPT !.loaded = TRUE, !.regime = "calm"]
  /\ UNCHANGED <<coreVars, corr, spin, feed, uiVars>>

\* The dwell counter has run out: transitionRegime draws rand and walks the
\* row of the current regime.
Transition(rand) ==
  /\ machine.loaded
  /\ machine' = [machine EXCEPT
                   !.regime = transitionRegimeOver(machine.table, machine.regime, rand),
                   !.rand = rand]
  /\ UNCHANGED <<coreVars, corr, spin, feed, uiVars>>

\* ------------------------------------------------------------------------
\* Cross-asset correlation
\* ------------------------------------------------------------------------
MaxSeriesLen == 3

\* Scores of a history, in whole units.
CorrValues == {-1, 0, 1}

Series == UNION {[1..n -> CorrValues] : n \in 0..MaxSeriesLen}

Negate(x) == [i \in 1..Len(x) |-> -x[i]]

RECURSIVE SumOver(_, _, _)
\* reduce((a, b) => a + b, 0) over f(1..n).
SumOver(f, i, n) == IF i > n THEN 0 ELSE f[i] + SumOver(f, i + 1, n)

RECURSIVE SqrtSearch(_, _, _)
SqrtSearch(v, lo, hi) ==
  IF lo >= hi THEN lo
  ELSE LET mid == (lo + hi + 1) \div 2
       IN  IF mid * mid <= v THEN SqrtSearch(v, mid, hi)
           ELSE SqrtSearch(v, lo, mid - 1)

\* Math.sqrt, rounded down.
Sqrt(v) == SqrtSearch(v, 0, 30000)

\* numerator / Math.sqrt(a * b), or 0 when the denominator is 0; the result
\* in ten-thousandths.
RatioNoSqrt(numerator, a, b) ==
  IF a * b = 0 THEN 0 ELSE RoundDiv(numerator * Fine, a * b)

Ratio(numerator, a, b) ==
  IF a * b = 0 THEN 0
  ELSE RoundDiv(numerator * Fine * One, Sqrt(a * b * Fine))

\* computeCorrelation of part_015: the last n points of each series, n the
\* shorter length.  The deviations are kept as multiples of 1/n (n * x[i]
\* minus the sum), which leaves the quotient what it is.
computeCorrelation(x, y) ==
  LET n == Min(Len(x), Len(y))
  IN  IF n < 2 THEN 0
      ELSE LET xSlice == SliceLast(x, n)
               ySlice == SliceLast(y, n)
               sumX == SumOver(xSlice, 1, n)
               sumY == SumOver(ySlice, 1, n)
               dx == [i \in 1..n |-> n * xSlice[i] - sumX]
               dy == [i \in 1..n |-> n * ySlice[i] - sumY]
               numerator == SumOver([i \in 1..n |-> dx[i] * dy[i]], 1, n)
               denomX == SumOver([i \in 1..n |-> dx[i] * dx[i]], 1, n)
               denomY == SumOver([i \in 1..n |-> dy[i] * dy[i]], 1, n)
           IN  Ratio(numerator, denomX, denomY)

\* calculatePearsonCorrelation of hooks/useCrossAssetCorrelation.ts.
calculatePearsonCorrelation(x, y) ==
  IF Len(x) # Len(y) \/ Len(x) < 2 THEN 0
  ELSE LET n == Len(x)
           sumX == SumOver(x, 1, n)
           sumY == SumOver(y, 1, n)
           sumXY == SumOver([i \in 1..n |-> x[i] * y[i]], 1, n)
           sumX2 == SumOver([i \in 1..n |-> x[i] * x[i]], 1, n)
           sumY2 == SumOver([i \in 1..n |-> y[i] * y[i]], 1, n)
       IN  Ratio(n * sumXY - sumX * sumY,
                 n * sumX2 - sumX * sumX, n * sumY2 - sumY * sumY)

\* The base correlation of the mock branch, hundredths.
baseCorrelation(symbol) ==
  CASE symbol = "BTC" -> 85
    [] symbol = "ETH" -> 78
    [] symbol = "SOL" -> 65
    [] symbol = "BNB" -> 72
    [] OTHER -> 50

\* The entry generateMockCorrelations returns for one symbol other than the
\* active one: the computed correlation when the map holds a history for
\* the symbol, a mock one otherwise (rand is Math.random() in thousandths).
\* present tells whether the returned array holds an entry for the symbol.
MockEntry(symbol, x, hasY, y, rand) ==
  IF hasY
  THEN [present |-> TRUE, correlation |-> computeCorrelation(x, y)]
  ELSE LET noise == RoundDiv((rand - 500) * 30, One)  \* ten-thousandths
       IN  [present |-> TRUE,
            correlation |-> Max(-Fine, Min(Fine, baseCorrelation(symbol) * One + noise))]

NoEntry == [present |-> FALSE, correlation |-> 0]

\* The least number of points computeCorrelation computes a quotient for.
MinSamples == 2

\* The points the two histories have in common: the shorter length, none
\* when the map holds no history for the symbol.
Overlap(x, hasY, y) == IF hasY THEN Min(Len(x), Len(y)) ELSE 0

\* The points of x are not all equal (so there are two at least): the sum
\* of its squared deviations, and with it the denominator, is not 0.
Varies(x) == \E i, j \in 1..Len(x) : x[i] # x[j]

CorrIdle ==
  corr = [x |-> <<>>, y |-> <<>>, hasY |-> FALSE, symbol |-> "ETH", rand |-> 0,
          done |-> FALSE, entry |-> NoEntry, pearson |-> 0]

\* The histories the model correlates: every pair of series, and every
\* series of the active symbol with no history for the other symbol.
CorrInit ==
  \/ \E x \in Series, y \in Series :
       corr = [x |-> x, y |-> y, hasY |-> TRUE, symbol |-> "ETH", rand |-> 0,
               done |-> FALSE, entry |-> NoEntry, pearson |-> 0]
  \/ \E x \in Series, symbol \in {"ETH", "XRP"}, rand \in {0, 999} :
       corr = [x |-> x, y |-> <<>>, hasY |-> FALSE, symbol |-> symbol,
               rand |-> rand, done |-> FALSE, entry |-> NoEntry, pearson |-> 0]

\* The correlations are computed.
Correlate ==
  /\ ~corr.done
  /\ corr' = [corr EXCEPT
        !.done = TRUE,
        !.entry = MockEntry(corr.symbol, corr.x, corr.hasY, corr.y, corr.rand),
        !.pearson = calculatePearsonCorrelation(corr.x, corr.y)]
  /\ UNCHANGED <<coreVars, machine, spin, feed, uiVars>>

\* ------------------------------------------------------------------------
\* The spin network
\* ------------------------------------------------------------------------
\* The number of nodes (the component creates 60).
SpinNodes == 7

NodeIds == 1..SpinNodes

\* The coupling of node i, in tenths: 0.3 + Math.random() * 0.7, fixed when
\* the network is generated.
coupling(i) == 3 + (i % 8)

\* The sum of the squared deviations of the spins from their mean, as a
\* multiple of 1 / SpinNodes^2 (deviations are kept as SpinNodes * spin
\* minus the sum of the spins).
SquaredDeviations(nodes) ==
  LET sum == SumOver(nodes, 1, SpinNodes)
  IN  SumOver([i \in NodeIds |-> (SpinNodes * nodes[i] - sum) * (SpinNodes * nodes[i] - sum)],
              1, SpinNodes)

\* metrics.variance, ten-thousandths.
variance(nodes) ==
  RoundDiv(SquaredDeviations(nodes) * Fine, SpinNodes * SpinNodes * SpinNodes)

\* metrics.susceptibility: Math.min(1, variance * 2), ten-thousandths.
susceptibilityMax(nodes) ==
  Max(Fine, RoundDiv(2 * SquaredDeviations(nodes) * Fine,
                     SpinNodes * SpinNodes * SpinNodes))

susceptibility(nodes) ==
  Min(Fine, RoundDiv(2 * SquaredDeviations(nodes) * Fine,
                     SpinNodes * SpinNodes * SpinNodes))

\* The spin of a node after the effect ran for a reading: score and
\* momentum in hundredths, noise the node's (Math.random() - 0.5) * 0.2 in
\* hundredths.
newSpin(old, i, score, momentum, noise) ==
  LET tendency == old * One + RoundDiv(score * coupling(i), One) + noise
                    + RoundDiv(momentum, 20)
  IN  IF tendency > 20 THEN 1
      ELSE IF tendency < -20 THEN -1
      ELSE old

\* The readings the component is rendered with, and the noise the nodes
\* draw.
SpinScores == {-One, 0, One}

SpinMomenta == {-22 * One, 22 * One}

SpinNoises ==
  { [i \in NodeIds |-> 0],
    [i \in NodeIds |-> IF i % 2 = 0 THEN 9 ELSE -9],
    [i \in NodeIds |-> IF i = 1 THEN -9 ELSE 9] }

\* The reading the component is rendered with before any other arrives.
SpinFirstReading == [score |-> 0, momentum |-> 0, regime |-> "calm"]

SpinIdle ==
  spin = [nodes |-> [i \in NodeIds |-> 1], phaseTransition |-> FALSE,
          cascade |-> 0, clearPending |-> FALSE,
          reading |-> SpinFirstReading, rerun |-> FALSE]

\* generateSpinNetwork: every node's spin is 1 or -1 at random.
SpinInit ==
  \E nodes \in [NodeIds -> {-1, 1}] :
    spin = [nodes |-> nodes, phaseTransition |-> FALSE, cascade |-> 0,
            clearPending |-> FALSE, reading |-> SpinFirstReading,
            rerun |-> FALSE]

\* The direction the cascade snaps every node to: reading.score > 0 ? 1 : -1.
cascadeSignInverted(score) == IF score > 0 THEN -1 ELSE 1

cascadeSign(score) == IF score > 0 THEN 1 ELSE -1

\* The body of the effect for the reading r: every node is influenced, and
\* a reading in the liquidation regime starts a phase transition unless one
\* is under way; the first timeout keeps the direction of r. Setting the
\* flag changes a dependency of the effect, which runs again.
EffectBody(r, noise) ==
  LET starts == r.regime = "liquidation" /\ ~spin.phaseTransition
  IN  [spin EXCEPT
         !.nodes = [i \in NodeIds |->
                      newSpin(spin.nodes[i], i, r.score, r.momentum, noise[i])],
         !.phaseTransition = IF starts THEN TRUE ELSE @,
         !.cascade = IF starts THEN cascadeSign(r.score) ELSE @,
         !.reading = r,
         !.rerun = starts]

\* A reading arrives: the component is rendered with it and the effect runs.
SpinEffect(score, momentum, regime, noise) ==
  /\ spin' = EffectBody([score |-> score, momentum |-> momentum,
                         regime |-> regime], noise)
  /\ UNCHANGED <<coreVars, machine, corr, feed, uiVars>>

\* phaseTransition changed since the effect last ran: the effect runs again
\* with the reading the component holds.
SpinEffectRerun(noise) ==
  /\ spin.rerun
  /\ spin' = EffectBody(spin.reading, noise)
  /\ UNCHANGED <<coreVars, machine, corr, feed, uiVars>>

\* The first timeout fires: every spin is set to the sign captured, and the
\* timeout that clears the flag is started.
CascadeFire ==
  /\ spin.cascade # 0
  /\ spin' = [spin EXCEPT !.nodes = [i \in NodeIds |-> spin.cascade],
                          !.cascade = 0, !.clearPending = TRUE]
  /\ UNCHANGED <<coreVars, machine, corr, feed, uiVars>>

\* The second timeout fires: setPhaseTransition(false), which changes a
\* dependency of the effect.
ClearFire ==
  /\ spin.clearPending
  /\ spin' = [spin EXCEPT !.phaseTransition = FALSE, !.clearPending = FALSE,
                          !.rerun = TRUE]
  /\ UNCHANGED <<coreVars, machine, corr, feed, uiVars>>

\* ------------------------------------------------------------------------
\* The consumers' retained history and events
\* ------------------------------------------------------------------------
MAX_HISTORY == 300

MAX_EVENTS == 50

\* The historical events the dashboard keeps on mount.
HistoricalKeep == 20

MaxFeedClock == 305

\* The model lets the number of events a reading carries vary, and the hook
\* fall back to the mock stream, every FeedStep readings only; any other
\* reading carries one event.
FeedStep == 50

\* setHistory(prev => [...prev.slice(-(MAX_HISTORY - 1)), reading])
HistoryPushKeepOldest(prev, r) ==
  Append(SubSeq(prev, 1, Min(Len(prev), MAX_HISTORY - 1)), r)

HistoryPush(prev, r) == Append(SliceLast(prev, MAX_HISTORY - 1), r)

\* setEvents(prev => [...newEvents, ...prev].slice(0, MAX_EVENTS))
EventsPush(prev, newEvents) ==
  LET all == newEvents \o prev
  IN  SubSeq(all, 1, Min(Len(all), MAX_EVENTS))

\* The k events a reading delivered at time at carries, in the order given.
EventsAt(at, k) == [i \in 1..k |-> [at |-> at, k |-> i]]

\* generateHistory(points) called at time at: readings with the timestamps
\* at - points + 1 .. at.
HistoryTo(at, points) == [i \in 1..points |-> at - points + i]

\* The readings of the generated history that carry a narrative event,
\* oldest first: none, the last two, or the last HistoricalKeep + 5.
HistoricalNarratives ==
  { <<>>, <<-1, 0>>, [i \in 1..(HistoricalKeep + 5) |-> i - HistoricalKeep - 5] }

FeedIdle ==
  feed = [consumer |-> "none", source |-> "none", clock |-> 0,
          history |-> <<>>, events |-> <<>>, count |-> 0]

\* The hook mounts: it starts on the WebSocket with nothing retained.
HookMount ==
  /\ feed.consumer = "none"
  /\ feed' = [feed EXCEPT !.consumer = "hook", !.source = "ws"]
  /\ UNCHANGED <<coreVars, machine, corr, spin, uiVars>>

\* The dashboard mounts: it generates a history and keeps the events of its
\* last HistoricalKeep readings that carry one, in the order of the history.
\* Its own history is the variable history of the trail model.
DashboardMount(narr) ==
  /\ feed.consumer = "none"
  /\ LET kept == SliceLast(narr, HistoricalKeep)
     IN  feed' = [feed EXCEPT
           !.consumer = "dashboard", !.source = "mock",
           !.events = [i \in 1..Len(kept) |-> [at |-> kept[i], k |-> 1]]]
  /\ UNCHANGED <<coreVars, machine, corr, spin, uiVars>>

\* The numbers of events the next reading may carry.
EventCounts(most) ==
  IF (feed.clock + 1) % FeedStep = 0 THEN 0..most ELSE {1}

\* A tick message arrives on the WebSocket and is adapted: it is put on the
\* history and its contributing events in front of the events.
WsTick ==
  /\ feed.consumer = "hook" /\ feed.source = "ws"
  /\ feed.clock < MaxFeedClock
  /\ \E k \in EventCounts(2) :
       LET at == feed.clock + 1
       IN  feed' = [feed EXCEPT
             !.clock = at,
             !.history = HistoryPush(feed.history, at),
             !.events = IF k > 0 THEN EventsPush(feed.events, EventsAt(at, k))
                        ELSE feed.events,
             !.count = feed.count + 1]
  /\ UNCHANGED <<coreVars, machine, corr, spin, uiVars>>

\* The hook falls back to the mock stream: the history is replaced by a
\* generated one; the events stay.
FallBack ==
  /\ feed.consumer = "hook" /\ feed.source = "ws"
  /\ feed.clock % FeedStep = 0
  /\ feed' = [feed EXCEPT !.source = "mock",
                          !.history = HistoryTo(feed.clock, HistoryPoints),
                          !.count = HistoryPoints]
  /\ UNCHANGED <<coreVars, machine, corr, spin, uiVars>>

\* The mock stream delivers a reading, with a narrative event or without.
MockTick ==
  /\ feed.source = "mock"
  /\ feed.clock < MaxFeedClock
  /\ \E k \in EventCounts(1) :
       LET at == feed.clock + 1
       IN  feed' = [feed EXCEPT
             !.clock = at,
             !.history = IF feed.consumer = "hook"
                         THEN HistoryPush(feed.history, at) ELSE feed.history,
             !.events = IF k > 0 THEN EventsPush(feed.events, EventsAt(at, k))
                        ELSE feed.events,
             !.count = IF feed.consumer = "hook" THEN feed.count + 1 ELSE 0]
  /\ UNCHANGED <<coreVars, machine, corr, spin, uiVars>>

\* ------------------------------------------------------------------------
\* The streamline flow's particles
\* ------------------------------------------------------------------------
\* The canvas, in whole pixels (the component's defaults are 800 by 500).
Width == 2

Height == 1

\* Lifetimes are counted in frames of LifeScale frames.
LifeScale == 50

\* The particles (the component creates 800).
ParticleIds == {1, 2}

\* Arithmetic and comparison of numbers that may be NaN.
Plus(a, b) == IF IsNaN(a) \/ IsNaN(b) THEN NaN ELSE a + b

LessThan(a, b) == ~IsNaN(a) /\ ~IsNaN(b) /\ a < b

\* The attribution of the reading the component is rendered with,
\* hundredths.
FlowAttribution == [social |-> 30, onchain |-> 50, microstructure |-> 20]

\* maxAgeBySource[source], the draw in hundredths.
maxAgeBySource(source, rand) ==
  CASE source = "social" -> (150 + rand) \div LifeScale
    [] source = "onchain" -> (250 + (150 * rand) \div 100) \div LifeScale
    [] source = "microstructure" -> (50 + rand \div 2) \div LifeScale

\* createParticle: the source by the attribution weights, the lifetime of
\* that source, a position inside the canvas, at rest, age 0. The draws are
\* in hundredths.
createParticle(randSource, randAge, randX, randY) ==
  LET source == IF randSource < FlowAttribution.social THEN "social"
                ELSE IF randSource < FlowAttribution.social + FlowAttribution.onchain
                     THEN "onchain"
                ELSE "microstructure"
  IN  [x |-> (randX * Width) \div One, y |-> (randY * Height) \div One,
       vx |-> 0, vy |-> 0, age |-> 0,
       maxAge |-> maxAgeBySource(source, randAge), source |-> source]

\* The particles createParticle returns when every draw is the same.
FreshParticles == { createParticle(rand, rand, rand, rand) : rand \in {0, 50, 99} }

\* getFlowVector: the base flow follows the reading's score, bent by the
\* noise field and the draws of the source; every component that depends on
\* the score is NaN when the score is. Pixels per frame.
FlowVectors(score) ==
  IF IsNaN(score)
  THEN { [x |-> NaN, y |-> 0] }
  ELSE { [x |-> 20, y |-> 0], [x |-> -20, y |-> 0], [x |-> 0, y |-> -20] }

\* particle.vx * 0.95 + flowVector.x * 0.05
Inertia(v, f) ==
  IF IsNaN(v) \/ IsNaN(f) THEN NaN ELSE RoundDiv(95 * v + 5 * f, One)

\* The respawn condition.
Respawns(q) ==
  \/ LessThan(q.x, 0) \/ LessThan(Width, q.x)
  \/ LessThan(q.y, 0) \/ LessThan(Height, q.y)
  \/ q.age > q.maxAge

\* The body of the loop for one particle: velocity, position, age, and
\* Object.assign(particle, createParticle(...)) when it respawns.
StepParticle(particle, flowVector, fresh) ==
  LET vx == Inertia(particle.vx, flowVector.x)
      vy == Inertia(particle.vy, flowVector.y)
      moved == [particle EXCEPT !.vx = vx, !.vy = vy,
                                !.x = Plus(particle.x, vx),
                                !.y = Plus(particle.y, vy),
                                !.age = particle.age + 1]
  IN  IF Respawns(moved) THEN fresh ELSE moved

FlowScores == {-One, One, NaN}

FlowIdle ==
  flow = [score |-> One,
          particles |-> [i \in ParticleIds |-> createParticle(0, 99, 0, 0)]]

\* The component mounts with a reading and fills particlesRef.
FlowInit ==
  \E fresh \in [ParticleIds -> FreshParticles] :
    flow = [score |-> One, particles |-> fresh]

\* A reading arrives: its attribution is a new object, so the effect that
\* fills particlesRef runs again.
FlowReading(score) ==
  /\ \E fresh \in [ParticleIds -> FreshParticles] :
       flow' = [score |-> score, particles |-> fresh]
  /\ UNCHANGED <<coreVars, machine, corr, spin, feed, ws, hook, cohorts>>

\* An animation frame: updateAndDrawParticles moves every particle.
Frame ==
  /\ \E flowVectors \in [ParticleIds -> FlowVectors(flow.score)],
        fresh \in [ParticleIds -> FreshParticles] :
       flow' = [flow EXCEPT
                  !.particles = [i \in ParticleIds |->
                                   StepParticle(flow.particles[i],
                                                flowVectors[i], fresh[i])]]
  /\ UNCHANGED <<coreVars, machine, corr, spin, feed, ws, hook, cohorts>>

\* ------------------------------------------------------------------------
\* The WebSocket client
\* ------------------------------------------------------------------------
MAX_RECONNECT_ATTEMPTS == 3

\* The sockets one client may construct in a behaviour of the model.
MaxSockets == 4

\* The symbols callers subscribe to, in the order the client's Set holds
\* them.
SymbolOrder == <<"BTC-USD", "ETH-USD">>

Symbols == {SymbolOrder[i] : i \in 1..Len(SymbolOrder)}

\* createWebSocketClient: no socket, status 'disconnected', no timer, no
\* symbol. sockets[i] is the readyState of the i-th socket constructed
\* ("closing": close() was called and the close event is still to come);
\* socket is the client's variable ws (0: null); timerSet says whether
\* reconnectTimer holds a handle, pendingCurrent whether that handle's
\* timeout is still to fire, pendingOther counts the timeouts still to fire
\* whose handle was overwritten. notes and out are the status changes
\* reported and the messages sent by the handler that ran last. scheduled
\* counts the reconnect timers set since a socket last opened; quiet is TRUE
\* from a disconnect() to the next subscribe(), and quietConnect records a
\* socket constructed meanwhile; opened describes the last open event.
NewClient ==
  [sockets |-> <<>>, socket |-> 0, status |-> "disconnected",
   reconnectAttempts |-> 0, timerSet |-> FALSE, pendingCurrent |-> FALSE,
   pendingOther |-> 0, subscribedSymbols |-> {}, notes |-> <<>>, out |-> <<>>,
   scheduled |-> 0, quiet |-> FALSE, quietConnect |-> FALSE,
   opened |-> [socket |-> 0, subscribed |-> {}, sent |-> {}]]

\* ws?.readyState === WebSocket.OPEN
IsOpen(c) == c.socket # 0 /\ c.sockets[c.socket] = "open"

updateStatus(c, newStatus) ==
  IF c.status # newStatus
  THEN [c EXCEPT !.status = newStatus, !.notes = Append(@, newStatus)]
  ELSE c

\* connect: nothing when the client's socket is open; otherwise the status
\* is reported and a new socket is constructed and kept in ws.
connect(c) ==
  IF IsOpen(c) THEN c
  ELSE LET c1 == updateStatus(c, IF c.reconnectAttempts > 0 THEN "reconnecting"
                                  ELSE "connecting")
       IN  [c1 EXCEPT !.sockets = Append(@, "connecting"),
                      !.socket = Len(c.sockets) + 1,
                      !.quietConnect = @ \/ c.quiet]

Send(c, action, symbol) ==
  [c EXCEPT !.out = Append(@, [action |-> action, symbol |-> symbol,
                               socket |-> c.socket])]

\* The body of subscribe after the symbol is in the set.
sendOrConnect(c, symbol) ==
  IF IsOpen(c) THEN Send(c, "subscribe", symbol) ELSE connect(c)

subscribe(c, symbol) ==
  sendOrConnect([c EXCEPT !.subscribedSymbols = @ \cup {symbol},
                          !.quiet = FALSE, !.quietConnect = FALSE], symbol)

unsubscribe(c, symbol) ==
  LET c1 == [c EXCEPT !.subscribedSymbols = @ \ {symbol}]
  IN  IF IsOpen(c1) THEN Send(c1, "unsubscribe", symbol) ELSE c1

\* WebSocket.close(): a socket that is connecting or open starts closing.
CloseSocket(sockets, i) ==
  IF sockets[i] \in {"connecting", "open"}
  THEN [sockets EXCEPT ![i] = "closing"] ELSE sockets

disconnect(c) ==
  LET c1 == IF c.timerSet
            THEN [c EXCEPT !.timerSet = FALSE, !.pendingCurrent = FALSE]
            ELSE c
      c2 == [c1 EXCEPT !.subscribedSymbols = {}]
      c3 == IF c2.socket # 0
            THEN [c2 EXCEPT !.sockets = CloseSocket(@, c2.socket), !.socket = 0]
            ELSE c2
  IN  updateStatus([c3 EXCEPT !.quiet = TRUE, !.quietConnect = FALSE],
                   "disconnected")

\* subscribedSymbols.forEach(symbol => subscribe(symbol)) from index i on.
RECURSIVE resubscribe(_, _)
resubscribe(c, i) ==
  IF i > Len(SymbolOrder) THEN c
  ELSE IF SymbolOrder[i] \in c.subscribedSymbols
       THEN resubscribe(sendOrConnect(c, SymbolOrder[i]), i + 1)
       ELSE resubscribe(c, i + 1)

\* The symbols a subscribe message in out was sent for on socket i.
SubscribesOn(out, i) ==
  { out[k].symbol : k \in { j \in 1..Len(out) :
                              out[j].action = "subscribe" /\ out[j].socket = i } }

\* ws.onopen of socket i.
onopen(c, i) ==
  LET c1 == [c EXCEPT !.sockets[i] = "open", !.reconnectAttempts = 0,
                      !.scheduled = 0]
      c2 == resubscribe(updateStatus(c1, "connected"), 1)
  IN  [c2 EXCEPT !.opened = [socket |-> i, subscribed |-> c1.subscribedSymbols,
                             sent |-> SubscribesOn(c2.out, i)]]

\* The test that lets onclose set the reconnect timer.
MayReconnectUnlimited(attempts, size) == size > 0

MayReconnect(attempts, size) == attempts < MAX_RECONNECT_ATTEMPTS /\ size > 0

\* ws.onclose of socket i.
onclose(c, i) ==
  LET c1 == updateStatus([c EXCEPT !.sockets[i] = "closed", !.socket = 0],
                         "disconnected")
  IN  IF MayReconnect(c1.reconnectAttempts, Cardinality(c1.subscribedSymbols))
      THEN [c1 EXCEPT !.reconnectAttempts = @ + 1,
                      !.scheduled = @ + 1,
                      !.pendingOther = IF c1.pendingCurrent THEN @ + 1 ELSE @,
                      !.pendingCurrent = TRUE,
                      !.timerSet = TRUE]
      ELSE c1

\* A handler starts with nothing reported and nothing sent.
Fresh(c) == [c EXCEPT !.notes = <<>>, !.out = <<>>]

WsIdle == ws = NewClient

\* A caller subscribes to a symbol.
WsSubscribe(symbol) ==
  /\ ws' = subscribe(Fresh(ws), symbol)
  /\ Len(ws'.sockets) <= MaxSockets
  /\ UNCHANGED <<coreVars, machine, corr, spin, feed, flow, hook, cohorts>>

WsUnsubscribe(symbol) ==
  /\ ws' = unsubscribe(Fresh(ws), symbol)
  /\ UNCHANGED <<coreVars, machine, corr, spin, feed, flow, hook, cohorts>>

WsDisconnect ==
  /\ ws' = disconnect(Fresh(ws))
  /\ UNCHANGED <<coreVars, machine, corr, spin, feed, flow, hook, cohorts>>

\* The open event of a connecting socket.
SocketOpen(i) ==
  /\ ws.sockets[i] = "connecting"
  /\ ws' = onopen(Fresh(ws), i)
  /\ Len(ws'.sockets) <= MaxSockets
  /\ UNCHANGED <<coreVars, machine, corr, spin, feed, flow, hook, cohorts>>

\* The close event of a socket: the connection failed, dropped, or close()
\* completed.
SocketClose(i) ==
  /\ ws.sockets[i] \in {"connecting", "open", "closing"}
  /\ ws' = onclose(Fresh(ws), i)
  /\ UNCHANGED <<coreVars, machine, corr, spin, feed, flow, hook, cohorts>>

\* A reconnect timeout fires: connect().
ReconnectTimerFire ==
  /\ \/ /\ ws.pendingCurrent
        /\ ws' = connect([Fresh(ws) EXCEPT !.pendingCurrent = FALSE])
     \/ /\ ws.pendingOther > 0
        /\ ws' = connect([Fresh(ws) EXCEPT !.pendingOther = @ - 1])
  /\ Len(ws'.sockets) <= MaxSockets
  /\ UNCHANGED <<coreVars, machine, corr, spin, feed, flow, hook, cohorts>>

\* ------------------------------------------------------------------------
\* The connection effect of useSentimentFeed
\* ------------------------------------------------------------------------
\* The 'disconnected' reports after which the hook falls back to the mock
\* stream.
FallbackAfter == 3

\* onStatusChange for the reports notes[i..]: 'connected' resets
\* reconnectAttemptsRef, 'disconnected' increments it and asks for the mock
\* fallback from FallbackAfter on.
RECURSIVE onStatusChange(_, _, _)
onStatusChange(h, notes, i) ==
  IF i > Len(notes) THEN h
  ELSE LET h1 ==
             IF notes[i] = "connected" THEN [h EXCEPT !.reconnectAttempts = 0]
             ELSE IF notes[i] = "disconnected"
                  THEN [h EXCEPT !.reconnectAttempts = @ + 1,
                                 !.wantMock = @ \/ h.reconnectAttempts + 1 >= FallbackAfter]
                  ELSE h
       IN  onStatusChange(h1, notes, i + 1)

\* The cleanup of the effect: client.unsubscribe(symbol); client.disconnect().
cleanupUnsubscribeOnly(c, symbol) == unsubscribe(Fresh(c), symbol)

cleanup(c, symbol) == disconnect(unsubscribe(Fresh(c), symbol))

\* The effect's body: a new client, the callbacks, client.subscribe(symbol).
mountClient(symbol) == subscribe(NewClient, symbol)

\* The render that follows setUseMockFallback(true): the effect's cleanup
\* runs, its body returns early, and the mock effect sets the last reading
\* of the generated history and starts the mock stream.
engageMock(h, c) ==
  LET c1 == cleanup(c, h.symbol)
      h1 == onStatusChange(h, c1.notes, 1)
  IN  [hook |-> [h1 EXCEPT !.useMockFallback = TRUE, !.mock = TRUE,
                           !.lastSource = "mock",
                           !.failedAtFallback = h.failed],
       ws |-> c1]

\* What a handler of the client leaves: the reports reach onStatusChange,
\* and a fallback asked for is rendered.
settle(h, c) ==
  LET h1 == onStatusChange(h, c.notes, 1)
  IN  IF h1.wantMock /\ ~h1.useMockFallback THEN engageMock(h1, c)
      ELSE [hook |-> h1, ws |-> c]

\* The hook before it is mounted. failed counts the sockets that closed
\* without having opened since a socket last opened, failedAtFallback is
\* that count when the fallback was rendered, lastSource the source of the
\* reading applied last.
HookIdle ==
  hook = [symbol |-> "BTC-USD", reconnectAttempts |-> 0, wantMock |-> FALSE,
          useMockFallback |-> FALSE, mock |-> FALSE, lastSource |-> "none",
          failed |-> 0, failedAtFallback |-> 0]

\* The hook is mounted: the effect has run for the symbol.
HookInit ==
  /\ HookIdle
  /\ ws = mountClient("BTC-USD")

HookSocketOpen(i) ==
  /\ ws.sockets[i] = "connecting"
  /\ LET after == settle([hook EXCEPT !.failed = 0], onopen(Fresh(ws), i))
     IN  hook' = after.hook /\ ws' = after.ws
  /\ Len(ws'.sockets) <= MaxSockets
  /\ UNCHANGED <<coreVars, machine, corr, spin, feed, flow, cohorts>>

HookSocketClose(i) ==
  /\ ws.sockets[i] \in {"connecting", "open", "closing"}
  /\ LET after == settle([hook EXCEPT
                            !.failed = IF ws.sockets[i] = "connecting"
                                       THEN @ + 1 ELSE @],
                         onclose(Fresh(ws), i))
     IN  hook' = after.hook /\ ws' = after.ws
  /\ UNCHANGED <<coreVars, machine, corr, spin, feed, flow, cohorts>>

HookTimerFire ==
  /\ ws.pendingCurrent \/ ws.pendingOther > 0
  /\ LET fired == IF ws.pendingCurrent
                  THEN [Fresh(ws) EXCEPT !.pendingCurrent = FALSE]
                  ELSE [Fresh(ws) EXCEPT !.pendingOther = @ - 1]
         after == settle(hook, connect(fired))
     IN  hook' = after.hook /\ ws' = after.ws
  /\ Len(ws'.sockets) <= MaxSockets
  /\ UNCHANGED <<coreVars, machine, corr, spin, feed, flow, cohorts>>

\* A tick for the hook's symbol arrives on an open socket: setReading.
HookMessage(i) ==
  /\ ws.sockets[i] = "open"
  /\ hook' = [hook EXCEPT !.lastSource = "ws"]
  /\ UNCHANGED <<coreVars, machine, corr, spin, feed, flow, ws, cohorts>>

\* The mock stream ticks: setReading.
HookMockTick ==
  /\ hook.mock
  /\ hook' = [hook EXCEPT !.lastSource = "mock"]
  /\ UNCHANGED <<coreVars, machine, corr, spin, feed, flow, ws, cohorts>>

\* The hook is rendered with another symbol: the effect's cleanup runs and,
\* unless the render already has useMockFallback set, its body runs for the
\* new symbol; a fallback asked for during the cleanup is rendered next.
HookSetSymbol(symbol) ==
  /\ symbol # hook.symbol
  /\ IF hook.useMockFallback
     THEN /\ hook' = [hook EXCEPT !.symbol = symbol]
          /\ ws' = ws
     ELSE LET c1 == cleanup(ws, hook.symbol)
              h1 == onStatusChange([hook EXCEPT !.symbol = symbol], c1.notes, 1)
              after == settle(h1, mountClient(symbol))
          IN  hook' = after.hook /\ ws' = after.ws
  /\ UNCHANGED <<coreVars, machine, corr, spin, feed, flow, cohorts>>

\* ------------------------------------------------------------------------
\* The cohort tabs
\* ------------------------------------------------------------------------
\* The buttons of the component.
CohortIds == {"all", "retail", "developer", "media", "whale"}

\* activeCohorts.includes(cohort)
Includes(active, cohort) == \E i \in 1..Len(active) : active[i] = cohort

\* activeCohorts.filter(c => c !== cohort)
Without(active, cohort) == SelectSeq(active, LAMBDA c : c # cohort)

\* toggleCohort: the selection handed to onCohortsChange.
toggleCohortKeepAll(active, cohort) ==
  IF cohort = "all" THEN <<"all">>
  ELSE IF Includes(active, cohort)
       THEN Without(active, cohort)
       ELSE Append(active, cohort)

toggleCohort(active, cohort) ==
  IF cohort = "all" THEN <<"all">>
  ELSE IF Includes(active, cohort)
       THEN LET newCohorts == Without(active, cohort)
            IN  IF Len(newCohorts) > 0 THEN newCohorts ELSE <<"all">>
       ELSE Append(Without(active, "all"), cohort)

\* The selection the owner of the tabs starts with, and the button pressed
\* last.
CohortsIdle == cohorts = [active |-> <<"all">>, clicked |-> "none"]

\* A button is pressed and the owner takes the new selection.
Toggle(cohort) ==
  /\ cohorts' = [active |-> toggleCohort(cohorts.active, cohort),
                 clicked |-> cohort]
  /\ UNCHANGED <<coreVars, machine, corr, spin, feed, flow, ws, hook>>

UiIdle == FlowIdle /\ WsIdle /\ HookIdle /\ CohortsIdle

\* ------------------------------------------------------------------------
\* Specifications
\* ------------------------------------------------------------------------
InitGen == GenInit /\ StreamInit /\ RunsInit /\ TrailIdle /\ AdapterIdle /\ MachineIdle /\ CorrIdle /\ SpinIdle /\ FeedIdle /\ UiIdle

NextGen == GenTick \/ GenHistory

SpecGen == InitGen /\ [][NextGen]_vars

Init == GenInit /\ StreamInit /\ RunsInit /\ TrailIdle /\ AdapterIdle /\ MachineIdle /\ CorrIdle /\ SpinIdle /\ FeedIdle /\ UiIdle

Next ==
  \/ \E s \in StreamIds : CreateStream(s)
  \/ \E s \in StreamIds : Subscribe(s)
  \/ \E s \in StreamIds : Unsubscribe(s)
  \/ \E t \in timers : TimerFire(t)
  \/ StreamHistory

Spec == Init /\ [][Next]_vars

InitRuns == GenInit /\ StreamInit /\ RunsInit /\ TrailIdle /\ AdapterIdle /\ MachineIdle /\ CorrIdle /\ SpinIdle /\ FeedIdle /\ UiIdle

NextRuns == \E r \in RunIds : RunTick(r)

SpecRuns == InitRuns /\ [][NextRuns]_vars

InitTrail == GenInit /\ StreamInit /\ RunsInit /\ TrailInit /\ AdapterIdle /\ MachineIdle /\ CorrIdle /\ SpinIdle /\ FeedIdle /\ UiIdle

NextTrail ==
  \/ Arrive
  \/ \E range \in TimeRanges \cup {NoRange} : SetTimeRange(range)

SpecTrail == InitTrail /\ [][NextTrail]_vars

InitAdapter == GenInit /\ StreamInit /\ RunsInit /\ TrailIdle /\ AdapterInit /\ MachineIdle /\ CorrIdle /\ SpinIdle /\ FeedIdle /\ UiIdle

NextAdapter == Adapt

SpecAdapter == InitAdapter /\ [][NextAdapter]_vars

InitMachine ==
  GenInit /\ StreamInit /\ RunsInit /\ TrailIdle /\ AdapterIdle /\ MachineInit /\ CorrIdle /\ SpinIdle /\ FeedIdle /\ UiIdle

NextMachine == LoadModule \/ \E rand \in MachineRandoms : Transition(rand)

SpecMachine == InitMachine /\ [][NextMachine]_vars

InitCorr ==
  GenInit /\ StreamInit /\ RunsInit /\ TrailIdle /\ AdapterIdle /\ MachineIdle
    /\ CorrInit /\ SpinIdle /\ FeedIdle /\ UiIdle

NextCorr == Correlate

SpecCorr == InitCorr /\ [][NextCorr]_vars

InitSpin ==
  GenInit /\ StreamInit /\ RunsInit /\ TrailIdle /\ AdapterIdle /\ MachineIdle
    /\ CorrIdle /\ SpinInit /\ FeedIdle /\ UiIdle

NextSpin ==
  \/ \E score \in SpinScores, momentum \in SpinMomenta,
        regime \in {"calm", "liquidation"}, noise \in SpinNoises :
       SpinEffect(score, momentum, regime, noise)
  \/ \E noise \in SpinNoises : SpinEffectRerun(noise)
  \/ CascadeFire
  \/ ClearFire

SpecSpin == InitSpin /\ [][NextSpin]_vars

\* The timeouts fire and a pending run of the effect happens: the browser's
\* timer queue and React's commit phase leave neither waiting for ever.
SpecSpinLive ==
  /\ SpecSpin
  /\ WF_vars(CascadeFire)
  /\ WF_vars(ClearFire)
  /\ WF_vars(\E noise \in SpinNoises : SpinEffectRerun(noise))

InitFlow ==
  GenInit /\ StreamInit /\ RunsInit /\ TrailIdle /\ AdapterIdle /\ MachineIdle
    /\ CorrIdle /\ SpinIdle /\ FeedIdle /\ FlowInit /\ WsIdle /\ HookIdle
    /\ CohortsIdle

NextFlow == Frame \/ \E score \in FlowScores : FlowReading(score)

SpecFlow == InitFlow /\ [][NextFlow]_vars

InitWs ==
  GenInit /\ StreamInit /\ RunsInit /\ TrailIdle /\ AdapterIdle /\ MachineIdle
    /\ CorrIdle /\ SpinIdle /\ FeedIdle /\ UiIdle

NextWs ==
  \/ \E symbol \in Symbols : WsSubscribe(symbol)
  \/ \E symbol \in Symbols : WsUnsubscribe(symbol)
  \/ WsDisconnect
  \/ \E i \in 1..Len(ws.sockets) : SocketOpen(i)
  \/ \E i \in 1..Len(ws.sockets) : SocketClose(i)
  \/ ReconnectTimerFire

SpecWs == InitWs /\ [][NextWs]_vars

InitCohorts ==
  GenInit /\ StreamInit /\ RunsInit /\ TrailIdle /\ AdapterIdle /\ MachineIdle
    /\ CorrIdle /\ SpinIdle /\ FeedIdle /\ UiIdle

NextCohorts == \E cohort \in CohortIds : Toggle(cohort)

SpecCohorts == InitCohorts /\ [][NextCohorts]_vars

InitHook ==
  GenInit /\ StreamInit /\ RunsInit /\ TrailIdle /\ AdapterIdle /\ MachineIdle
    /\ CorrIdle /\ SpinIdle /\ FeedIdle /\ FlowIdle /\ HookInit /\ CohortsIdle

NextHook ==
  \/ \E i \in 1..Len(ws.sockets) : HookSocketOpen(i)
  \/ \E i \in 1..Len(ws.sockets) : HookSocketClose(i)
  \/ HookTimerFire
  \/ \E i \in 1..Len(ws.sockets) : HookMessage(i)
  \/ HookMockTick
  \/ \E symbol \in Symbols : HookSetSymbol(symbol)

SpecHook == InitHook /\ [][NextHook]_vars

InitFeed ==
  GenInit /\ StreamInit /\ RunsInit /\ TrailIdle /\ AdapterIdle /\ MachineIdle
    /\ CorrIdle /\ SpinIdle /\ FeedIdle /\ UiIdle

NextFeed ==
  \/ HookMount
  \/ \E narr \in HistoricalNarratives : DashboardMount(narr)
  \/ WsTick
  \/ FallBack
  \/ MockTick

SpecFeed == InitFeed /\ [][NextFeed]_vars

\* ------------------------------------------------------------------------
\* Properties
\* ------------------------------------------------------------------------

\* C1: every reading the generator produces, by a tick or in a regenerated
\* history, has its score within [-1, 1] and its confidence within [0, 1].
C1_ScoreAndConfidenceInRange ==
  \A i \in 1..Len(produced) :
    /\ produced[i].score >= -One /\ produced[i].score <= One
    /\ produced[i].confidence >= 0 /\ produced[i].confidence <= One

\* A tick that had to clamp: the score stays at 1 although the noise pushes
\* it up (from 1, the unclamped update is 1 + 0.03 - 0.02).
C1_Witness ==
  \E i \in 1..Len(produced) : produced[i].score = One /\ produced[i].momentum = 0

\* C2: the attribution weights of every produced reading sum to 1 within
\* epsilon, whatever the three attribution noise samples are.
C2_AttributionSumsToOne ==
  \A i \in 1..Len(produced) :
    LET a   == produced[i].attribution
        sum == a.social + a.onchain + a.microstructure
    IN  /\ ~IsNaN(a.social) /\ ~IsNaN(a.onchain) /\ ~IsNaN(a.microstructure)
        /\ sum - Fine <= 2 /\ Fine - sum <= 2

\* C3: two executions of the generator that have produced the same number
\* of readings have produced the same readings.
C3_RunsAgree ==
  Len(runs["A"].readings) = Len(runs["B"].readings)
    => runs["A"].readings = runs["B"].readings

\* C4: the readings of a stream are those it would produce if nothing else
\* ran: the latest reading of the observed stream is the reading an isolated
\* generator yields for the same calls and samples, whatever other streams
\* and generateHistory did in between.
C4_StreamUnaffected ==
  streams[Observed].created => getLatest(Observed) = isolated.reading

\* C5: once unsubscribe() has returned (no interval id is stored), no
\* interval started by that stream is still running.
C5_UnsubscribeStopsTimers ==
  \A s \in StreamIds :
    streams[s].created /\ streams[s].intervalId = 0
      => \A t \in timers : t.stream # s

\* C6: until its first tick getLatest() is the reading produced when the
\* stream was created, and whenever a reading is handed to the callback
\* getLatest() is that reading.
C6_GetLatestIsMostRecent ==
  /\ [](\A s \in StreamIds :
          streams[s].created /\ streams[s].firstReading # NoReading
            => getLatest(s) = streams[s].firstReading)
  /\ [][\A s \in StreamIds :
          delivered'[s].n # delivered[s].n
            => delivered'[s].reading = streams'[s].latestReading]_vars

\* A reading has been handed to the subscriber's callback and getLatest()
\* returns it.
C6_Witness ==
  \E s \in StreamIds :
    /\ delivered[s].n = 1
    /\ delivered[s].reading = getLatest(s)
    /\ streams[s].callback = "cb"

\* C7: the trail never holds more than TrailCapacity points, after live
\* pushes and after time-travel rebuilds.
C7_TrailWithinCapacity == Len(trailRef) <= TrailCapacity

\* C8: live, the trail is the last TrailCapacity points put on it, in the
\* order they were put: a push on a full trail evicts exactly the oldest.
C8_EvictsOldest ==
  ~timeRange.active => Points(trailRef) = SliceLast(appended, TrailCapacity)

\* TrailCapacity + 1 points have been pushed since the portrait mounted: the
\* trail is full and the first point pushed is gone.
C8_Witness ==
  /\ ~timeRange.active
  /\ Len(appended) = TrailCapacity + 1
  /\ appended[1].timestamp = HistoryPoints
  /\ Len(trailRef) = TrailCapacity
  /\ \A i \in 1..Len(trailRef) : trailRef[i].timestamp # HistoryPoints

\* C9: after a push the point at (0-based) index i has alpha (i+1)/length:
\* alphas do not decrease with the index and the newest point has alpha 1.
C9_AlphaByIndex ==
  ~timeRange.active =>
    /\ \A i \in 1..Len(trailRef) :
         /\ trailRef[i].alpha = RoundDiv(i * Fine, Len(trailRef))
         /\ i > 1 => trailRef[i - 1].alpha <= trailRef[i].alpha
    /\ trailRef[Len(trailRef)].alpha = Fine

\* A push onto a full trail: a point was evicted and the alphas of the
\* points kept were recomputed.
C9_Witness ==
  /\ ~timeRange.active
  /\ Len(trailRef) = TrailCapacity
  /\ Len(appended) > TrailCapacity
  /\ trailRef[1].alpha < trailRef[TrailCapacity].alpha

\* C10: when the payload's score and confidence are numbers, finite or
\* infinite, the adapted score is within [-1, 1] and the adapted confidence
\* within [0, 1].
C10_AdapterClamps ==
  /\ adapted # NotAdapted /\ ~adapted.threw
  /\ backend.score # Undefined /\ backend.confidence # Undefined
  => /\ adapted.score >= -One /\ adapted.score <= One
     /\ adapted.confidence >= 0 /\ adapted.confidence <= One

\* A payload with score and confidence both outside their domains has been
\* adapted and both were clamped.
C10_Witness ==
  /\ adapted # NotAdapted /\ ~adapted.threw
  /\ backend.score = Infinity /\ adapted.score = One
  /\ backend.confidence = -(3 * One) /\ adapted.confidence = 0

\* C11: the attribution weights of every adapted reading sum to 1 within
\* epsilon.
C11_AdaptedAttributionSumsToOne ==
  adapted # NotAdapted /\ ~adapted.threw =>
    LET a   == adapted.attribution
        sum == a.social + a.onchain + a.microstructure
    IN  sum - Fine <= 2 /\ Fine - sum <= 2

\* C12: a label that is not in the lookup table is adapted without an error
\* to the regime calm, and the adapted reading carries a fidelity-loss flag.
C12_UnknownLabelDefaultsToCalm ==
  /\ adapted # NotAdapted
  /\ backend.regime # "undefined"
  /\ toLowerCase(backend.regime) \notin RegimeSet
  => /\ ~adapted.threw
     /\ adapted.regime = "calm"
     /\ "fidelityLoss" \in DOMAIN adapted

\* C13: a payload that lacks its regime or its attribution is adapted without
\* an error leaving adaptBackendResponse.
C13_MissingFieldRecovered ==
  /\ adapted # NotAdapted
  /\ backend.regime = "undefined" \/ backend.attribution = NoAttribution
  => ~adapted.threw

C15_RegimeHeldWhileDwelling ==
  [][simulationTime' = simulationTime + 1 =>
       /\ regimeStability - 1 > 0 =>
            /\ currentRegime' = currentRegime
            /\ regimeStability' = regimeStability - 1
       /\ currentRegime' # currentRegime => regimeStability - 1 <= 0
       /\ produced'[Len(produced')].regime = currentRegime']_vars

\* The dwell counter ran out, the regime left calm, and the new regime has
\* been held through further ticks while its own counter runs.
C15_Witness ==
  /\ currentRegime # "calm"
  /\ regimeStability < 50
  /\ produced # <<>> /\ produced[Len(produced)].regime = currentRegime

\* C16 (as claimed): for any series X, correlation(X, X) is 1 and
\* correlation(X, -X) is -1.
C16_SelfCorrelationAnySeries ==
  corr.done /\ corr.hasY =>
    /\ corr.y = corr.x =>
         corr.entry.correlation = Fine /\ corr.pearson = Fine
    /\ corr.y = Negate(corr.x) =>
         corr.entry.correlation = -Fine /\ corr.pearson = -Fine

\* C16 (amended): for any series X whose points are not all equal,
\* correlation(X, X) is 1 and correlation(X, -X) is -1; for a constant
\* series, or one shorter than two points, both are 0.
C16_SelfCorrelation ==
  corr.done /\ corr.hasY =>
    LET one == IF Varies(corr.x) THEN Fine ELSE 0
    IN  /\ corr.y = corr.x =>
             corr.entry.correlation = one /\ corr.pearson = one
        /\ corr.y = Negate(corr.x) =>
             corr.entry.correlation = -one /\ corr.pearson = -one

\* A series of three points, not all equal, has been correlated with its
\* negation.
C16_Witness ==
  /\ corr.done /\ corr.hasY
  /\ Len(corr.x) = 3 /\ Varies(corr.x) /\ corr.y = Negate(corr.x)
  /\ corr.entry.correlation = -Fine

\* C17: when the active symbol and the other symbol have fewer than
\* MinSamples history points in common, the result holds no entry for the
\* pair.
C17_ShortOverlapOmitted ==
  corr.done /\ Overlap(corr.x, corr.hasY, corr.y) < MinSamples
    => ~corr.entry.present

\* C18: the susceptibility is 0 when all nodes have the same spin, and from
\* one network to the next it does not decrease when the variance of the
\* spins does not, and rises with the variance below the cap of 1.
C18_SusceptibilityFollowsVariance ==
  /\ [](\A s \in {-1, 1} :
          spin.nodes = [i \in NodeIds |-> s] => susceptibility(spin.nodes) = 0)
  /\ [][/\ (variance(spin'.nodes) >= variance(spin.nodes))
            => (susceptibility(spin'.nodes) >= susceptibility(spin.nodes))
        /\ (variance(spin'.nodes) > variance(spin.nodes)
              /\ susceptibility(spin'.nodes) < Fine)
            => (susceptibility(spin'.nodes) > susceptibility(spin.nodes))]_vars

\* After a cascade forced all spins to one sign (susceptibility 0), a
\* reading has flipped a single node: the susceptibility is above 0 and
\* below the cap.
C18_Witness ==
  /\ spin.clearPending
  /\ susceptibility(spin.nodes) > 0
  /\ susceptibility(spin.nodes) < Fine

\* C19: the retained events are never more than MAX_EVENTS and are ordered
\* newest first.
C19_EventsBoundedNewestFirst ==
  /\ Len(feed.events) <= MAX_EVENTS
  /\ \A i, j \in 1..Len(feed.events) :
       i < j => feed.events[i].at >= feed.events[j].at

\* C20: the hook's history never holds more than MAX_HISTORY readings, and
\* it holds the most recent readings in the order they arrived: all the
\* readings put on it while there are no more than MAX_HISTORY, the last
\* MAX_HISTORY of them afterwards.
C20_HistoryBoundedMostRecent ==
  feed.consumer = "hook" =>
    /\ Len(feed.history) = Min(MAX_HISTORY, feed.count)
    /\ \A i \in 1..Len(feed.history) :
         feed.history[i] = feed.clock - (Len(feed.history) - i)

\* More than MAX_HISTORY readings have arrived on the WebSocket: the history
\* is full and the first reading is gone.
C20_Witness ==
  /\ feed.consumer = "hook" /\ feed.source = "ws"
  /\ feed.count = MAX_HISTORY + 1
  /\ Len(feed.history) = MAX_HISTORY
  /\ feed.history[1] = 2


\* C21: when the dwell counter has run out, the next regime is the first
\* state of the current regime's row whose cumulative probability exceeds
\* the draw, and the last state of the row when no cumulative value does.
C21_FirstExceedingElseLast ==
  [][machine.loaded =>
       LET row == machine.table[machine.regime]
           exceeding == { i \in 1..Len(row) :
                            SumSeq(SubSeq(row, 1, i), 1) > machine'.rand }
       IN  machine'.regime =
             IF exceeding # {}
             THEN Regimes[CHOOSE i \in exceeding : \A j \in exceeding : i <= j]
             ELSE Regimes[Len(row)]]_vars


\* C22 (as stated): whenever the reading the network holds is in the
\* liquidation regime with a score of sign s, every node's spin is
\* eventually s.
C22_EveryLiquidationReadingCascades ==
  /\ (spin.reading.regime = "liquidation" /\ spin.reading.score > 0)
       ~> (\A i \in NodeIds : spin.nodes[i] = 1)
  /\ (spin.reading.regime = "liquidation" /\ spin.reading.score < 0)
       ~> (\A i \in NodeIds : spin.nodes[i] = -1)

\* C22 (amended): a run of the effect for a liquidation reading while no
\* phase transition is under way raises the flag and keeps the direction of
\* that reading (1 for a positive score, -1 otherwise); the cascade then
\* sets every node to that direction; the flag is lowered afterwards; and
\* every run of the effect, before, during and after a cascade, moves each
\* node by the per-node rule.
C22_CascadeThenClear ==
  /\ [][(/\ spin'.clearPending = spin.clearPending
         /\ spin'.cascade # 0 \/ spin.cascade = 0
         /\ spin' # spin)
        => (/\ \E noise \in SpinNoises :
                 spin'.nodes =
                   [i \in NodeIds |->
                      newSpin(spin.nodes[i], i, spin'.reading.score,
                              spin'.reading.momentum, noise[i])]
            /\ (spin'.reading.regime = "liquidation" /\ ~spin.phaseTransition)
                 => (/\ spin'.phaseTransition
                     /\ spin'.cascade =
                          IF spin'.reading.score > 0 THEN 1 ELSE -1))]_vars
  /\ \A s \in {-1, 1} :
       (spin.phaseTransition /\ spin.cascade = s)
         ~> (spin.clearPending /\ \A i \in NodeIds : spin.nodes[i] = s)
  /\ spin.phaseTransition ~> ~spin.phaseTransition

\* A cascade has set every node to -1, against the direction the network
\* was generated with, and the flag is still up.
C22_Witness ==
  /\ spin.reading.regime = "liquidation"
  /\ spin.reading.score < 0
  /\ spin.phaseTransition
  /\ spin.clearPending
  /\ \A i \in NodeIds : spin.nodes[i] = -1


\* C23: after every step each particle lies within the canvas with an age
\* not above its max age.
C23_ParticlesWithinBounds ==
  \A i \in ParticleIds :
    /\ ~IsNaN(flow.particles[i].x) /\ ~IsNaN(flow.particles[i].y)
    /\ flow.particles[i].x >= 0 /\ flow.particles[i].x <= Width
    /\ flow.particles[i].y >= 0 /\ flow.particles[i].y <= Height
    /\ flow.particles[i].age <= flow.particles[i].maxAge


\* C24: between two open events the client sets at most
\* MAX_RECONNECT_ATTEMPTS reconnect timers, and a close event that finds
\* that many set since the last open sets no timer.
C24_AtMostThreeReconnects ==
  /\ [](ws.scheduled <= MAX_RECONNECT_ATTEMPTS)
  /\ [][ws.scheduled >= MAX_RECONNECT_ATTEMPTS
          => /\ ws'.scheduled \in {0, ws.scheduled}
             /\ (~ws.pendingCurrent /\ ws.pendingOther = 0)
                  => (~ws'.pendingCurrent /\ ws'.pendingOther = 0)]_vars

\* The first connection and three reconnect attempts have all failed: four
\* sockets are closed, three timers were set, none is pending, and a symbol
\* is still subscribed.
C24_Witness ==
  /\ ws.scheduled = MAX_RECONNECT_ATTEMPTS
  /\ Len(ws.sockets) = MAX_RECONNECT_ATTEMPTS + 1
  /\ \A i \in 1..Len(ws.sockets) : ws.sockets[i] = "closed"
  /\ ~ws.pendingCurrent /\ ws.pendingOther = 0
  /\ ws.subscribedSymbols # {}
  /\ ~ws.quiet

\* C25: at most one socket of the client is connecting or open.
C25_OneSocket ==
  Cardinality({ i \in 1..Len(ws.sockets) :
                  ws.sockets[i] \in {"connecting", "open"} }) <= 1

\* C26: from a disconnect() to the next subscribe() no reconnect timer is
\* pending, no symbol is subscribed and no socket is constructed.
C26_QuietAfterDisconnect ==
  ws.quiet =>
    /\ ~ws.pendingCurrent /\ ws.pendingOther = 0
    /\ ws.subscribedSymbols = {}
    /\ ~ws.quietConnect

\* C27: the handler of an open event sends, on the socket that opened, a
\* subscribe message for exactly the symbols subscribed at that moment.
C27_ResubscribesOnOpen ==
  ws.opened.socket # 0 => ws.opened.sent = ws.opened.subscribed


\* C30: the active-cohort selection is never empty and never holds "all"
\* together with a specific cohort.
C30_SelectionWellFormed ==
  /\ [](Len(cohorts.active) > 0)
  /\ [](Includes(cohorts.active, "all") => cohorts.active = <<"all">>)
  /\ [][Includes(cohorts.active, cohorts'.clicked) /\ Len(cohorts.active) = 1
          => cohorts'.active = <<"all">>]_vars

\* The only specific cohort selected was toggled off and the selection fell
\* back to "all".
C30_Witness ==
  /\ cohorts.active = <<"all">>
  /\ cohorts.clicked = "whale"


\* C28: when the hook is on the mock fallback, at least 3 sockets in a row
\* had closed without opening (failed connection attempts with no open in
\* between) by the time it fell back.
C28_FallbackAfterThreeFailures ==
  hook.useMockFallback => hook.failedAtFallback >= FallbackAfter

\* C29: once the mock fallback is rendered the client has no subscribed
\* symbol, no pending reconnect timer and no socket connecting or open, the
\* reading applied last came from the mock stream, and the fallback is
\* never left.
C29_MockIsOnlySource ==
  /\ [](hook.useMockFallback =>
          /\ hook.mock
          /\ ws.subscribedSymbols = {}
          /\ ~ws.pendingCurrent /\ ws.pendingOther = 0
          /\ \A i \in 1..Len(ws.sockets) :
               ws.sockets[i] \notin {"connecting", "open"}
          /\ ws.status = "disconnected"
          /\ hook.lastSource = "mock")
  /\ [][hook.useMockFallback => hook'.useMockFallback]_vars
  /\ [](~hook.useMockFallback => ~hook.mock)

\* The third reconnect-less failure in a row engaged the fallback: the
\* timer the last close event had set was cleared by the cleanup, and the
\* mock stream has ticked since.
C29_Witness ==
  /\ hook.useMockFallback
  /\ hook.failedAtFallback = FallbackAfter
  /\ ws.reconnectAttempts = MAX_RECONNECT_ATTEMPTS
  /\ Len(ws.sockets) = FallbackAfter
  /\ ~ws.pendingCurrent
  /\ hook.lastSource = "mock"

=============================================================================
